---------------------------- MODULE Spec2Model ----------------------------
(***************************************************************************)
(* A model of the Sia renter's HostDB core and of the EC-Schnorr signature *)
(* primitive of package crypto.                                            *)
(*                                                                         *)
(*   Part I    crypto: byte helpers, the curve, ECSchnorrSign and Verify   *)
(*   Part II   the weighted host tree                                      *)
(*   Part III  the HostDB: blockchain consumer, scan queue, scanner        *)
(*   Part IV   reliability under sequences of scans                        *)
(*   Part V    persistence: save, crash and load                           *)
(*   Part VI   crypto: the encodings of keys                               *)
(*   Part VII  hostdb.New                                                  *)
(*   Part VIII the renter's file map                                       *)
(*                                                                         *)
(* Each part has its own specification over the shared variable list; the  *)
(* variables of the other parts stay at their initial values.              *)
(***************************************************************************)
EXTENDS Integers, Sequences, FiniteSets

VARIABLES
    \* Part I: one signing run and one verification
    schPc,      \* "start" | "signed" | "tampered" | "verified"
    schMsg,     \* data handed to ECSchnorrSign
    schKey,     \* the ECSecret handed to ECSchnorrSign
    schRand,    \* what RandBytes returned to ECSchnorrSign
    schSig,     \* the *ECSchnorrSig returned (NoSig before signing)
    schVMsg,    \* data handed to Verify
    schVSig,    \* signature Verify is called on
    schVPub,    \* public key handed to Verify
    schTamper,  \* which input was changed before verification
    schErr,     \* Verify's result
    \* Part II and III: the weighted tree and its index
    hostTree,    \* the arena of hostNodes: position -> [host, own, sub]
    activeHosts, \* address -> position of the host's node in hostTree
    treeOp,      \* the last tree operation and what it returned
    \* Part III: the HostDB
    allHosts,    \* address -> hostEntry, every known host
    scanPool,    \* the channel of hosts awaiting a scan: [buf, cap]
    pending,     \* the addresses present in scanPool, as the scheduler tracks them
    workers,     \* probe worker -> [busy, host]: the scan it has in flight
    chain,       \* the applied blocks, each the set of addresses it announces
    blockHeight, \* the height of the tip
    sched,       \* the scan scheduler: [pc, todo, dropped]
    \* Part IV to VIII
    relTest,     \* a host entry under a sequence of scans: [start, entry, log]
    persist,     \* the persister: the coordinator's state, the files, the save in progress
    keyCall,     \* one call of an encoding function of package crypto: [op, in, out]
    newCall,     \* one call of hostdb.New: its arguments, its position and its effects
    renter       \* the Renter: its files map and the last call's result

schVars == <<schPc, schMsg, schKey, schRand, schSig, schVMsg, schVSig,
             schVPub, schTamper, schErr>>

treeVars == <<hostTree, activeHosts, treeOp>>

hdbVars == <<allHosts, scanPool, pending, workers, chain, blockHeight, sched>>

extVars == <<relTest, persist, keyCall, newCall, renter>>

vars == <<schVars, treeVars, hdbVars, extVars>>

(***************************************************************************)
(* Bounds                                                                  *)
(***************************************************************************)
\* Nonces k and replaced values of sig.S range over 0..MaxScalar, which is
\* past the group order N.
MaxScalar == 33
\* Number of distinct messages.
MaxMsg == 2
\* Hosts (network addresses) are 1..NumHosts.
NumHosts == 3
\* Host weights range over 0..MaxWeight.
MaxWeight == 2
\* The scan queue holds at most MaxQueue entries (see ScanPoolCap).
MaxQueue == 2
\* Number of probe workers.
NumWorkers == 2
\* The chain holds at most MaxHeight blocks.
MaxHeight == 1
NumAnnouncers == 2

(***************************************************************************)
(* Part I.  crypto                                                         *)
(***************************************************************************)

ECCoordinateSize == 32
ECSchnorrEntropySize == 32
HashSize == 32
ECHeaderUncompressed == 4

\* A byte slice is a sequence over 0..255.
Zeros(n) == [i \in 1..n |-> 0]

\* big.Int.Bytes: the minimal big-endian encoding; zero is the empty slice.
RECURSIVE BigBytes(_)
BigBytes(v) == IF v = 0 THEN <<>>
               ELSE Append(BigBytes(v \div 256), v % 256)

\* big.Int.SetBytes: the big-endian value of a slice.
RECURSIVE SetBytes(_)
SetBytes(b) == IF Len(b) = 0 THEN 0
               ELSE SetBytes(SubSeq(b, 1, Len(b) - 1)) * 256 + b[Len(b)]

\* A wrong pad, for the mutation check: of a longer slice the first size
\* bytes are kept.
padFirst(bytes, size) ==
    IF Len(bytes) >= size
    THEN SubSeq(bytes, 1, size)
    ELSE LET offset == size - Len(bytes)
         IN  [i \in 1..size |-> IF i > offset THEN bytes[i - offset] ELSE 0]

\* pad: left-pad with zeros to size bytes, or keep the last size bytes.
pad(bytes, size) ==
    IF Len(bytes) >= size
    THEN LET offset == Len(bytes) - size
         IN  SubSeq(bytes, offset + 1, Len(bytes))
    ELSE LET offset == size - Len(bytes)
         IN  [i \in 1..size |-> IF i > offset THEN bytes[i - offset] ELSE 0]

(***************************************************************************)
(* The curve.  secp256k1 is y^2 = x^3 + 7 over F_P with a group of prime   *)
(* order N < P, P = 3 mod 4, and a generator of even Y.  The model keeps   *)
(* the equation and those properties on a field small enough to enumerate: *)
(* P = 43, N = 31, G = (2, 12).  The point at infinity is (0, 0), which is *)
(* not on the curve.                                                       *)
(***************************************************************************)
s256 == [P |-> 43, N |-> 31, B |-> 7, Gx |-> 2, Gy |-> 12]

Infinity == [X |-> 0, Y |-> 0]

ModInv(a) == CHOOSE b \in 1..(s256.P - 1) : (a * b) % s256.P = 1

\* s256.Add: the group law in affine coordinates.
Add(p1, p2) ==
    IF p1 = Infinity THEN p2
    ELSE IF p2 = Infinity THEN p1
    ELSE IF p1.X = p2.X /\ (p1.Y + p2.Y) % s256.P = 0 THEN Infinity
    ELSE LET lam == IF p1 = p2
                    THEN (3 * p1.X * p1.X * ModInv((2 * p1.Y) % s256.P)) % s256.P
                    ELSE ((p2.Y - p1.Y) * ModInv((p2.X - p1.X) % s256.P)) % s256.P
             x3  == (lam * lam - p1.X - p2.X) % s256.P
             y3  == (lam * (p1.X - x3) - p1.Y) % s256.P
         IN  [X |-> x3, Y |-> y3]

\* k times the point, by double and add.
RECURSIVE MulPoint(_, _)
MulPoint(pt, k) ==
    IF k = 0 THEN Infinity
    ELSE LET half == MulPoint(pt, k \div 2)
             dbl  == Add(half, half)
         IN  IF k % 2 = 1 THEN Add(dbl, pt) ELSE dbl

\* s256.ScalarMult and s256.ScalarBaseMult take the scalar as big-endian bytes.
ScalarMult(pt, kBytes) == MulPoint(pt, SetBytes(kBytes))
ScalarBaseMult(kBytes) == MulPoint([X |-> s256.Gx, Y |-> s256.Gy], SetBytes(kBytes))

\* ComputeECPublic: the public key rG of the secret bytes.
ComputeECPublic(rBytes) == ScalarBaseMult(rBytes)

\* A wrong Serialize, for the mutation check: the coordinates are not padded.
SerializeNoPad(pub) ==
    (<<ECHeaderUncompressed>> \o BigBytes(pub.X)) \o BigBytes(pub.Y)

\* ECPublic.Serialize: 0x04 || pad(X) || pad(Y).
Serialize(pub) ==
    LET data == <<ECHeaderUncompressed>>
        padx == pad(BigBytes(pub.X), ECCoordinateSize)
        pady == pad(BigBytes(pub.Y), ECCoordinateSize)
    IN  (data \o padx) \o pady

(***************************************************************************)
(* HashBytes.  The hash is taken to be collision-free: the model's hash is *)
(* an injective map from the byte strings hashed here (a message followed  *)
(* by a 65-byte serialized point) to 32-byte digests.  The digest is the   *)
(* big-endian encoding of a number read off the message bytes and the two  *)
(* coordinates; HashMix spreads the digests over the residues modulo N.    *)
(***************************************************************************)
HashMix == 5

\* The messages signed: the tests' "Sign me" and MaxMsg strings of ones.
MessageList ==
    <<<<83, 105, 103, 110, 32, 109, 101>>>> \o
    [len \in 1..MaxMsg |-> [i \in 1..(len - 1) |-> 1]]

Messages == { MessageList[i] : i \in 1..Len(MessageList) }

HashBytes(data) ==
    LET n   == Len(data)
        ser == 1 + 2 * ECCoordinateSize
        m   == SubSeq(data, 1, n - ser)
        mi  == CHOOSE i \in 1..Len(MessageList) : MessageList[i] = m
        x   == SetBytes(SubSeq(data, n - ser + 2, n - ECCoordinateSize))
        y   == SetBytes(SubSeq(data, n - ECCoordinateSize + 1, n))
        h   == ((mi - 1) * s256.P + x) * s256.P + y
    IN  pad(BigBytes(HashMix * h + 1), HashSize)

\* subtle.ConstantTimeCompare: 1 when the slices are equal, else 0.
ConstantTimeCompare(a, b) == IF Len(a) = Len(b) /\ a = b THEN 1 ELSE 0

NoSig == [E |-> <<>>, S |-> <<>>]

\* A wrong ECSchnorrSign, for the mutation check: s = k + e*r.
ECSchnorrSignPlus(data, secKey, rand) ==
    IF rand.err
    THEN [sig |-> NoSig, err |-> "entropy"]
    ELSE LET serKPub == Serialize(ComputeECPublic(rand.k))
             E       == HashBytes(data \o serKPub)
             s       == (SetBytes(rand.k) + SetBytes(E) * secKey.R) % s256.N
         IN  [sig |-> [E |-> E, S |-> pad(BigBytes(s), ECSchnorrEntropySize)],
              err |-> "nil"]

\* ECSchnorrSign.  rand is what RandBytes(ECSchnorrEntropySize) returned.
ECSchnorrSign(data, secKey, rand) ==
    IF rand.err
    THEN [sig |-> NoSig, err |-> "entropy"]
    ELSE LET k        == rand.k
             kPub     == ComputeECPublic(k)
             serKPub  == Serialize(kPub)
             hashData == data \o serKPub
             E        == HashBytes(hashData)
             kInt     == SetBytes(k)
             eInt     == SetBytes(E)
             s        == (kInt - eInt * secKey.R) % s256.N
             sBytes   == BigBytes(s)
             offset   == HashSize - Len(sBytes)
             S        == [i \in 1..ECSchnorrEntropySize |->
                            IF i > offset THEN sBytes[i - offset] ELSE 0]
         IN  [sig |-> [E |-> E, S |-> S], err |-> "nil"]

\* ECSchnorrSig.Verify: recompute kG = sG + eP and compare the hashes.
Verify(sig, data, pubKey) ==
    LET sG       == ScalarBaseMult(sig.S)
        ePub     == ScalarMult(pubKey, sig.E)
        kG       == Add(sG, ePub)
        serPub   == Serialize(kG)
        hashData == data \o serPub
        e        == HashBytes(hashData)
    IN  IF ConstantTimeCompare(e, sig.E) # 1
        THEN "ErrECSchnorrVerify"
        ELSE "nil"

(***************************************************************************)
(* The inputs of a signing run, and one verification of its signature.     *)
(***************************************************************************)
\* A secret key with P = R*G, as DeserializeECSecret and the tests build it.
SecretOf(r) ==
    LET pub == ComputeECPublic(BigBytes(r))
    IN  [X |-> pub.X, Y |-> pub.Y, R |-> r]

PublicOf(sec) == [X |-> sec.X, Y |-> sec.Y]

\* The secrets of ecTestCases (1, 2, 3, 17, N - 8, N - 1), and two that are
\* not reduced modulo N.
SecretScalars == {1, 2, 3, 17, s256.N - 8, s256.N - 1, s256.N + 1, s256.N + 2}

Scalars == 0..MaxScalar

\* 32 bytes of entropy, or a failure of the entropy source.
RandResults ==
    {[err |-> TRUE, k |-> <<>>]} \cup
    {[err |-> FALSE, k |-> pad(BigBytes(v), ECSchnorrEntropySize)] : v \in Scalars}

\* Part IV to VIII at rest
ExtIdle ==
    /\ relTest = [pc |-> "none"]
    /\ persist = [pc |-> "none"]
    /\ keyCall = [op |-> "none"]
    /\ newCall = [pc |-> "none"]
    /\ renter = [pc |-> "none"]

\* The variables of Part I when no signing run is modelled.
SchIdle ==
    /\ schPc = "idle"
    /\ schMsg = <<>>
    /\ schKey = [X |-> 0, Y |-> 0, R |-> 0]
    /\ schRand = [err |-> TRUE, k |-> <<>>]
    /\ schSig = NoSig
    /\ schVMsg = <<>>
    /\ schVSig = NoSig
    /\ schVPub = Infinity
    /\ schTamper = "none"
    /\ schErr = "none"

\* The variables of Parts II and III when no HostDB is modelled.
TreeIdle ==
    /\ hostTree = << >>
    /\ activeHosts = << >>
    /\ treeOp = [op |-> "none"]

HdbIdle ==
    /\ allHosts = << >>
    /\ scanPool = [buf |-> << >>, cap |-> 0]
    /\ pending = {}
    /\ workers = << >>
    /\ chain = << >>
    /\ blockHeight = 0
    /\ sched = [pc |-> "none", todo |-> {}, dropped |-> {}]

SchInit ==
    /\ schPc = "start"
    /\ schMsg \in Messages
    /\ schKey \in { SecretOf(r) : r \in SecretScalars }
    /\ schRand \in RandResults
    /\ schSig = NoSig
    /\ schVMsg = <<>>
    /\ schVSig = NoSig
    /\ schVPub = Infinity
    /\ schTamper = "none"
    /\ schErr = "none"
    /\ TreeIdle
    /\ HdbIdle
    /\ ExtIdle

\* sig, err := ECSchnorrSign(msg, sec)
Sign ==
    /\ schPc = "start"
    /\ LET r == ECSchnorrSign(schMsg, schKey, schRand)
       IN  /\ schSig' = r.sig
           /\ schPc' = IF r.err = "nil" THEN "signed" ELSE "failed"
    /\ UNCHANGED <<schMsg, schKey, schRand, schVMsg, schVSig, schVPub,
                   schTamper, schErr>>
    /\ UNCHANGED <<treeVars, hdbVars, extVars>>

\* err := sig.Verify(msg, pub), on the inputs named.
VerifyCall(tamper, sig, data, pub) ==
    /\ schPc = "signed"
    /\ schTamper' = tamper
    /\ schVSig' = sig
    /\ schVMsg' = data
    /\ schVPub' = pub
    /\ schErr' = Verify(sig, data, pub)
    /\ schPc' = "verified"
    /\ UNCHANGED <<schMsg, schKey, schRand, schSig>>
    /\ UNCHANGED <<treeVars, hdbVars, extVars>>

\* The test's call: the signature as returned, the message and the key's point.
VerifyHonest == VerifyCall("none", schSig, schMsg, PublicOf(schKey))

\* Exactly one of the four inputs of Verify is replaced by another value.
VerifyOtherMsg ==
    \E m \in Messages \ {schMsg} :
        VerifyCall("m", schSig, m, PublicOf(schKey))

VerifyOtherE ==
    \E d \in {1, 2, s256.N, 2 * s256.N, 256} :
        \E v \in {SetBytes(schSig.E) + d, SetBytes(schSig.E) - d} :
            /\ v >= 0
            /\ VerifyCall("E", [schSig EXCEPT !.E = pad(BigBytes(v), HashSize)],
                          schMsg, PublicOf(schKey))

VerifyOtherS ==
    \E v \in Scalars \ {SetBytes(schSig.S)} :
        VerifyCall("S", [schSig EXCEPT !.S = pad(BigBytes(v), ECSchnorrEntropySize)],
                   schMsg, PublicOf(schKey))

VerifyOtherP ==
    \E r \in SecretScalars :
        /\ PublicOf(SecretOf(r)) # PublicOf(schKey)
        /\ VerifyCall("P", schSig, schMsg, PublicOf(SecretOf(r)))

SchNext ==
    \/ Sign
    \/ VerifyHonest
    \/ VerifyOtherMsg
    \/ VerifyOtherE
    \/ VerifyOtherS
    \/ VerifyOtherP

SpecSchnorr == SchInit /\ [][SchNext]_vars

(***************************************************************************)
(* C1.  For every message, every secret key (R, P = R*G) and every nonce   *)
(* the entropy source produced, the signature ECSchnorrSign returns is     *)
(* accepted by Verify on the same message and P: Verify returns nil.       *)
(***************************************************************************)
C1_SignThenVerify ==
    (schPc = "verified" /\ schTamper = "none") => schErr = "nil"

\* A signature made with a secret and a nonce that both exceed the group
\* order has been verified against the key's point.
C1_Witness ==
    /\ schPc = "verified"
    /\ schTamper = "none"
    /\ schErr = "nil"
    /\ schKey.R > s256.N
    /\ SetBytes(schRand.k) > s256.N
    /\ schMsg = MessageList[1]

C2_MsgRejected ==
    (schPc = "verified" /\ schTamper = "m") => schErr = "ErrECSchnorrVerify"
C2_ERejected ==
    (schPc = "verified" /\ schTamper = "E") => schErr = "ErrECSchnorrVerify"
C2_SRejected ==
    (schPc = "verified" /\ schTamper = "S") => schErr = "ErrECSchnorrVerify"
C2_PRejected ==
    (schPc = "verified" /\ schTamper = "P") => schErr = "ErrECSchnorrVerify"

(***************************************************************************)
(* Part II.  The weighted host tree                                        *)
(*                                                                         *)
(* hostTree is an arena of nodes indexed by position: the root is 1 and    *)
(* the children of i are 2i and 2i+1.  A node holds its host's address,    *)
(* the host's own weight and the weight of its subtree.  activeHosts is    *)
(* the coordinator's index from address to node.                           *)
(***************************************************************************)
Hosts == 1..NumHosts
Weights == 0..MaxWeight

RECURSIVE InSubtree(_, _)
\* j is i or a descendant of i
InSubtree(i, j) == j = i \/ (j > i /\ InSubtree(i, j \div 2))

\* the strict ancestors of i
Ancestors(i) == { a \in 1..i : a # i /\ InSubtree(a, i) }

Left(i) == 2 * i
Right(i) == 2 * i + 1

\* the number of nodes in the subtree of i, and its weight
DescendantCount(t, i) == Cardinality({ j \in DOMAIN t : InSubtree(i, j) })
SubtreeWeight(t, i) == IF i \in DOMAIN t THEN t[i].sub ELSE 0

IsLeaf(t, i) == i \in DOMAIN t /\ Left(i) \notin DOMAIN t /\ Right(i) \notin DOMAIN t

\* add d to subtree_weight of every node of path
AddOnPath(t, path, d) ==
    [j \in DOMAIN t |-> IF j \in path THEN [t[j] EXCEPT !.sub = @ + d] ELSE t[j]]

RECURSIVE InsertPos(_, _)
\* walk from i choosing the child with the smaller descendant count, tie left
InsertPos(t, i) ==
    IF i \notin DOMAIN t THEN i
    ELSE IF DescendantCount(t, Left(i)) <= DescendantCount(t, Right(i))
         THEN InsertPos(t, Left(i))
         ELSE InsertPos(t, Right(i))

\* A wrong insert, for the mutation check: the root's subtree weight is not
\* raised.
insertNoRoot(t, h, w) ==
    LET p  == InsertPos(t, 1)
        t1 == [j \in DOMAIN t \cup {p} |->
                 IF j = p THEN [host |-> h, own |-> w, sub |-> w] ELSE t[j]]
    IN  AddOnPath(t1, Ancestors(p) \ {1}, w)

\* insert(h): place a leaf, then add weight(h) on the way back to the root.
insert(t, h, w) ==
    LET p  == InsertPos(t, 1)
        t1 == [j \in DOMAIN t \cup {p} |->
                 IF j = p THEN [host |-> h, own |-> w, sub |-> w] ELSE t[j]]
    IN  AddOnPath(t1, Ancestors(p), w)

\* remove(h): n is h's node and l a leaf descendant of n (n itself when n is
\* a leaf).  The leaf is detached and takes h's place.
remove(t, n, l) ==
    LET leafW == t[l].own
        t1 == AddOnPath(t, Ancestors(l), 0 - leafW)
        t2 == [j \in DOMAIN t \ {l} |-> t1[j]]
    IN  IF l = n THEN t2
        ELSE LET old == t[n].own
                 t3  == [t2 EXCEPT ![n].host = t[l].host, ![n].own = leafW]
             IN  AddOnPath(t3, Ancestors(n) \cup {n}, 0 - (old - leafW))

\* the index after remove(h)
removeIndex(idx, t, n, l) ==
    [a \in DOMAIN idx \ {t[n].host} |-> IF a = t[l].host THEN n ELSE idx[a]]

\* update_weight(h, new_weight)
update_weight(t, n, w) ==
    LET delta == w - t[n].own
    IN  AddOnPath([t EXCEPT ![n].own = w], Ancestors(n) \cup {n}, delta)

RECURSIVE Descend(_, _, _)
\* the descent of pick() from node i with the draw x; 0 when it runs off the tree
Descend(t, i, x) ==
    IF i \notin DOMAIN t THEN 0
    ELSE LET lw == SubtreeWeight(t, Left(i))
         IN  IF x < lw THEN Descend(t, Left(i), x)
             ELSE IF x - lw < t[i].own THEN t[i].host
             ELSE Descend(t, Right(i), x - lw - t[i].own)

\* A wrong descent, for the mutation check: the node's weight is compared
\* before the left subtree's weight is taken off the draw.
pickEarly(t, x) ==
    IF 1 \notin DOMAIN t THEN [host |-> 0, err |-> "NoHostsError"]
    ELSE IF x < t[1].own THEN [host |-> t[1].host, err |-> "nil"]
    ELSE [host |-> Descend(t, 1, x), err |-> "nil"]

\* pick() with the draw x in [0, root.subtree_weight)
pick(t, x) ==
    IF 1 \notin DOMAIN t
    THEN [host |-> 0, err |-> "NoHostsError"]
    ELSE [host |-> Descend(t, 1, x), err |-> "nil"]

\* the draws of pick(): [0, root.subtree_weight); one draw of an empty tree
Draws(t) == IF 1 \in DOMAIN t /\ t[1].sub > 0 THEN 0..(t[1].sub - 1) ELSE {0}

TreeInit ==
    /\ SchIdle
    /\ HdbIdle
    /\ ExtIdle
    /\ hostTree = << >>
    /\ activeHosts = << >>
    /\ treeOp = [op |-> "none"]

TreeInsert ==
    \E h \in Hosts \ DOMAIN activeHosts : \E w \in Weights :
        /\ hostTree' = insert(hostTree, h, w)
        /\ activeHosts' = [a \in DOMAIN activeHosts \cup {h} |->
                             IF a = h THEN InsertPos(hostTree, 1) ELSE activeHosts[a]]
        /\ treeOp' = [op |-> "insert", host |-> h]
        /\ UNCHANGED <<schVars, extVars, hdbVars>>

TreeRemove ==
    \E h \in DOMAIN activeHosts :
        LET n == activeHosts[h]
        IN  \E l \in { j \in DOMAIN hostTree : InSubtree(n, j) /\ IsLeaf(hostTree, j) } :
                /\ hostTree' = remove(hostTree, n, l)
                /\ activeHosts' = removeIndex(activeHosts, hostTree, n, l)
                /\ treeOp' = [op |-> "remove", host |-> h, node |-> n, leaf |-> l]
                /\ UNCHANGED <<schVars, extVars, hdbVars>>

TreeUpdateWeight ==
    \E h \in DOMAIN activeHosts : \E w \in Weights :
        /\ hostTree' = update_weight(hostTree, activeHosts[h], w)
        /\ treeOp' = [op |-> "update_weight", host |-> h]
        /\ UNCHANGED <<activeHosts, schVars, extVars, hdbVars>>

TreePick ==
    \E x \in Draws(hostTree) :
        /\ treeOp' = [op |-> "pick", draw |-> x, res |-> pick(hostTree, x)]
        /\ UNCHANGED <<hostTree, activeHosts, schVars, extVars, hdbVars>>

TreeNext == TreeInsert \/ TreeRemove \/ TreeUpdateWeight \/ TreePick

SpecTree == TreeInit /\ [][TreeNext]_vars

\* the weight of every host of the tree together
RECURSIVE SumOwn(_, _)
SumOwn(t, S) ==
    IF S = {} THEN 0
    ELSE LET j == CHOOSE k \in S : TRUE
         IN  t[j].own + SumOwn(t, S \ {j})

(***************************************************************************)
(* C3.  After any sequence of insert, remove and update_weight, every node *)
(* of the tree has subtree_weight = own weight + the subtree_weight of its *)
(* children, and so the root's subtree_weight is the weight of all hosts.  *)
(***************************************************************************)
C3_SubtreeWeight ==
    /\ \A i \in DOMAIN hostTree :
          hostTree[i].sub = hostTree[i].own
                              + SubtreeWeight(hostTree, Left(i))
                              + SubtreeWeight(hostTree, Right(i))
    /\ SubtreeWeight(hostTree, 1) = SumOwn(hostTree, DOMAIN hostTree)

\* An inner node was removed and a leaf of positive weight took its place,
\* below a root that has another child.
C3_Witness ==
    /\ treeOp.op = "remove"
    /\ treeOp.node = 1
    /\ treeOp.leaf # 1
    /\ treeOp.host \notin DOMAIN activeHosts
    /\ Cardinality(DOMAIN hostTree) = 2
    /\ hostTree[1].sub > hostTree[1].own
    /\ hostTree[1].own > 0

(***************************************************************************)
(* C4.  pick() on a non-empty tree maps every draw x of                    *)
(* [0, root.subtree_weight) to a host of the tree, exactly weight(h) draws *)
(* select host h (none selects a host of weight 0), and pick() on an empty *)
(* tree fails with NoHostsError.                                           *)
(***************************************************************************)
C4_PickByWeight ==
    /\ \A a \in DOMAIN activeHosts :
          Cardinality({ x \in 0..(SubtreeWeight(hostTree, 1) - 1) :
                          pick(hostTree, x) = [host |-> a, err |-> "nil"] })
            = hostTree[activeHosts[a]].own
    /\ \A x \in 0..(SubtreeWeight(hostTree, 1) - 1) :
          pick(hostTree, x).host \in DOMAIN activeHosts
    /\ (DOMAIN hostTree = {}) => pick(hostTree, 0).err = "NoHostsError"
    /\ treeOp.op = "pick" =>
          IF DOMAIN hostTree = {}
          THEN treeOp.res.err = "NoHostsError"
          ELSE SubtreeWeight(hostTree, 1) > 0 =>
                 /\ treeOp.res.err = "nil"
                 /\ treeOp.res.host \in DOMAIN activeHosts
                 /\ hostTree[activeHosts[treeOp.res.host]].own > 0

\* pick() returned the host of the right child of a full tree that also holds
\* a host of weight 0.
C4_Witness ==
    /\ treeOp.op = "pick"
    /\ DOMAIN hostTree = {1, 2, 3}
    /\ treeOp.res.err = "nil"
    /\ treeOp.res.host = hostTree[3].host
    /\ \E i \in DOMAIN hostTree : hostTree[i].own = 0

\* pick() on the empty tree failed.
C4_WitnessEmpty ==
    /\ treeOp.op = "pick"
    /\ DOMAIN hostTree = {}
    /\ treeOp.res.err = "NoHostsError"

(***************************************************************************)
(* Part III.  The HostDB: blockchain consumer, scan queue and scanner      *)
(***************************************************************************)
scanPoolSize == 1000

\* The capacity of the scanPool channel.  The source makes it scanPoolSize;
\* the model cuts it to MaxQueue so that a full queue is reached.
ScanPoolCap == IF scanPoolSize < MaxQueue THEN scanPoolSize ELSE MaxQueue

\* A wrong newHostDB, for the mutation check: the channel is made one larger.
newHostDBWide ==
    [contracts |-> << >>, activeHosts |-> << >>, allHosts |-> << >>,
     scanPool |-> [buf |-> << >>, cap |-> ScanPoolCap + 1]]

\* newHostDB: empty maps and an empty channel of capacity scanPoolSize.
newHostDB ==
    [contracts |-> << >>, activeHosts |-> << >>, allHosts |-> << >>,
     scanPool |-> [buf |-> << >>, cap |-> ScanPoolCap]]

\* A send on the channel that does not wait: it fails when the buffer is full.
TrySend(ch, v) ==
    IF Len(ch.buf) < ch.cap
    THEN [ok |-> TRUE, ch |-> [ch EXCEPT !.buf = Append(@, v)]]
    ELSE [ok |-> FALSE, ch |-> ch]

\* reliability: its range, the start value and the steps of a scan
MaxReliability == 2
InitialReliability == 1
DeltaUp == 1
DeltaDown == 1

Min(a, b) == IF a < b THEN a ELSE b
Max(a, b) == IF a > b THEN a ELSE b

\* The settings a host may advertise: accepting with storage left, accepting
\* with more storage left, not accepting contracts, no storage left.
NoSettings == [accepting |-> FALSE, remaining |-> 0, price |-> 1]
ScanSettings ==
    { [accepting |-> TRUE, remaining |-> 1, price |-> 1],
      [accepting |-> FALSE, remaining |-> 1, price |-> 1] }

\* weight(h): zero when a gate fires, else reliability^2 * remaining / price
weight(e) ==
    IF ~e.settings.accepting \/ e.reliability = 0 \/ e.settings.remaining = 0
    THEN 0
    ELSE (e.reliability * e.reliability * e.settings.remaining)
            \div Max(e.settings.price, 1)

\* a host is classified active: positive weight and no recent failure
IsActive(e) == e.weight > 0 /\ ~e.recent_failure

\* the entry made by the first announcement of a host, in the block at height h
NewEntry(h) ==
    [first_seen |-> h, refs |-> 1, reliability |-> InitialReliability,
     recent_failure |-> FALSE, settings |-> NoSettings, weight |-> 0,
     in_tree |-> FALSE, scanned |-> FALSE]

Range(q) == { q[i] : i \in 1..Len(q) }

\* the addresses in the order a block or a sweep goes through them
Lowest(S) == CHOOSE x \in S : \A y \in S : x <= y

RECURSIVE ApplyAnnouncements(_, _, _)
\* The consumer on the valid announcements anns of the block at height h: an
\* unseen address gets an entry and is sent to the scan queue without
\* waiting; a known address is left as it is.
ApplyAnnouncements(st, anns, h) ==
    IF anns = {} THEN st
    ELSE LET a   == Lowest(anns)
             snd == TrySend(st.pool, a)
             st1 == IF a \in DOMAIN st.all THEN st
                    ELSE [all  |-> [x \in DOMAIN st.all \cup {a} |->
                                      IF x = a THEN NewEntry(h) ELSE st.all[x]],
                          pool |-> snd.ch,
                          pend |-> IF snd.ok THEN st.pend \cup {a} ELSE st.pend]
         IN  ApplyAnnouncements(st1, anns \ {a}, h)

\* A wrong RevertAnnouncements, for the mutation check: a host without a
\* reference is forgotten whether or not a scan of it ever succeeded.
RECURSIVE RevertAnnouncementsAll(_, _)
RevertAnnouncementsAll(all, anns) ==
    IF anns = {} THEN all
    ELSE LET a    == Lowest(anns)
             all1 == IF a \notin DOMAIN all THEN all
                     ELSE LET refs == Max(all[a].refs - 1, 0)
                          IN  IF refs = 0
                              THEN [x \in DOMAIN all \ {a} |-> all[x]]
                              ELSE [all EXCEPT ![a].refs = refs]
         IN  RevertAnnouncementsAll(all1, anns \ {a})

RECURSIVE RevertAnnouncements(_, _)
\* The consumer on the announcements of a reverted block: the reference count
\* goes down, and a host with no reference and no successful scan is forgotten.
RevertAnnouncements(all, anns) ==
    IF anns = {} THEN all
    ELSE LET a    == Lowest(anns)
             all1 == IF a \notin DOMAIN all THEN all
                     ELSE LET refs == Max(all[a].refs - 1, 0)
                          IN  IF refs = 0 /\ ~all[a].scanned
                              THEN [x \in DOMAIN all \ {a} |-> all[x]]
                              ELSE [all EXCEPT ![a].refs = refs]
         IN  RevertAnnouncements(all1, anns \ {a})

\* the addresses that announce themselves on the chain
Announcers == 1..NumAnnouncers

\* the blocks: each announces some of them
Blocks == SUBSET Announcers \ {{}}

\* the state after New: newHostDB, the probe workers idle, the scheduler asleep
HdbInit ==
    /\ SchIdle
    /\ ExtIdle
    /\ hostTree = << >>
    /\ activeHosts = newHostDB.activeHosts
    /\ treeOp = [op |-> "none"]
    /\ allHosts = newHostDB.allHosts
    /\ scanPool = newHostDB.scanPool
    /\ pending = {}
    /\ workers = [w \in 1..NumWorkers |-> [busy |-> FALSE, host |-> 0]]
    /\ chain = << >>
    /\ blockHeight = 0
    /\ sched = [pc |-> "sleep", todo |-> {}, dropped |-> {}]

\* ProcessConsensusChange with one applied block
ApplyBlock ==
    \E b \in Blocks :
        /\ Len(chain) < MaxHeight
        /\ LET st == ApplyAnnouncements(
                        [all |-> allHosts, pool |-> scanPool, pend |-> pending],
                        b, blockHeight + 1)
           IN  /\ allHosts' = st.all
               /\ scanPool' = st.pool
               /\ pending' = st.pend
        /\ chain' = Append(chain, b)
        /\ blockHeight' = blockHeight + 1
        /\ UNCHANGED <<schVars, extVars, treeVars, workers, sched>>

\* ProcessConsensusChange with one reverted block
RevertBlock ==
    /\ Len(chain) > 0
    /\ allHosts' = RevertAnnouncements(allHosts, chain[Len(chain)])
    /\ chain' = SubSeq(chain, 1, Len(chain) - 1)
    /\ blockHeight' = blockHeight - 1
    /\ UNCHANGED <<schVars, extVars, treeVars, scanPool, pending, workers, sched>>

\* the scheduler wakes and starts a sweep over the known hosts
SchedWake ==
    /\ sched.pc = "sleep"
    /\ sched' = [pc |-> "sweep", todo |-> DOMAIN allHosts, dropped |-> {}]
    /\ UNCHANGED <<schVars, extVars, treeVars, allHosts, scanPool, pending, workers,
                   chain, blockHeight>>

\* The sweep looks at one host: a host that was forgotten, is in the queue
\* already or is not due is passed over; a due host is sent to the queue
\* without waiting, and dropped for this round when the queue is full.  A host
\* never scanned is due; for the others due says whether the interval is over.
SchedStep ==
    /\ sched.pc = "sweep"
    /\ sched.todo # {}
    /\ LET a == Lowest(sched.todo)
       IN  \E due \in BOOLEAN :
                IF /\ a \in DOMAIN allHosts
                   /\ a \notin pending
                   /\ (due \/ (~allHosts[a].scanned /\ ~allHosts[a].recent_failure))
                THEN LET snd == TrySend(scanPool, a)
                     IN  /\ scanPool' = snd.ch
                         /\ pending' = IF snd.ok THEN pending \cup {a} ELSE pending
                         /\ sched' = [sched EXCEPT !.todo = @ \ {a},
                                         !.dropped = IF snd.ok THEN @ ELSE @ \cup {a}]
                ELSE /\ sched' = [sched EXCEPT !.todo = @ \ {a}]
                     /\ UNCHANGED <<scanPool, pending>>
    /\ UNCHANGED <<schVars, extVars, treeVars, allHosts, workers, chain, blockHeight>>

\* the sweep is over; the scheduler sleeps until the next one
SchedSleep ==
    /\ sched.pc = "sweep"
    /\ sched.todo = {}
    /\ sched' = [sched EXCEPT !.pc = "sleep"]
    /\ UNCHANGED <<schVars, extVars, treeVars, allHosts, scanPool, pending, workers,
                   chain, blockHeight>>

\* a probe worker receives the next host from the queue and dials it
Dequeue(w) ==
    /\ ~workers[w].busy
    /\ Len(scanPool.buf) > 0
    /\ workers' = [workers EXCEPT ![w] = [busy |-> TRUE, host |-> Head(scanPool.buf)]]
    /\ scanPool' = [scanPool EXCEPT !.buf = Tail(@)]
    /\ pending' = pending \ {Head(scanPool.buf)}
    /\ UNCHANGED <<schVars, extVars, treeVars, allHosts, chain, blockHeight, sched>>

\* A wrong ScannedEntry, for the mutation check: a failed scan marks the
\* failure and leaves reliability as it was.
ScannedEntryKeep(e, ok, settings) ==
    LET e1 == IF ok
              THEN [e EXCEPT !.settings = settings,
                             !.reliability = Min(@ + DeltaUp, MaxReliability),
                             !.recent_failure = FALSE,
                             !.scanned = TRUE]
              ELSE [e EXCEPT !.recent_failure = TRUE]
    IN  [e1 EXCEPT !.weight = weight(e1)]

\* the entry after a scan: ok with the settings read, or a failure
ScannedEntry(e, ok, settings) ==
    LET e1 == IF ok
              THEN [e EXCEPT !.settings = settings,
                             !.reliability = Min(@ + DeltaUp, MaxReliability),
                             !.recent_failure = FALSE,
                             !.scanned = TRUE]
              ELSE [e EXCEPT !.reliability = Max(@ - DeltaDown, 0),
                             !.recent_failure = TRUE]
    IN  [e1 EXCEPT !.weight = weight(e1)]

\* the leaf that takes the place of node n: the first or the last of its leaves
LeafOf(t, n, last) ==
    LET leaves == { j \in DOMAIN t : InSubtree(n, j) /\ IsLeaf(t, j) }
    IN  IF last THEN CHOOSE j \in leaves : \A k \in leaves : k <= j
        ELSE CHOOSE j \in leaves : \A k \in leaves : j <= k

\* A wrong Reflect, for the mutation check: a host leaves the tree only when
\* its weight is zero, so a host whose scan failed stays in the tree.
ReflectWeightOnly(a, e, t, idx, last) ==
    LET t0 == IF e.in_tree THEN update_weight(t, idx[a], e.weight) ELSE t
        s1 == IF e.weight > 0 /\ ~e.in_tree
              THEN [e   |-> [e EXCEPT !.in_tree = TRUE],
                    t   |-> insert(t0, a, e.weight),
                    idx |-> [x \in DOMAIN idx \cup {a} |->
                               IF x = a THEN InsertPos(t0, 1) ELSE idx[x]]]
              ELSE [e |-> e, t |-> t0, idx |-> idx]
    IN  IF s1.e.weight = 0 /\ s1.e.in_tree
        THEN LET n == s1.idx[a]
                 l == LeafOf(s1.t, n, last)
             IN  [e   |-> [s1.e EXCEPT !.in_tree = FALSE],
                  t   |-> remove(s1.t, n, l),
                  idx |-> removeIndex(s1.idx, s1.t, n, l)]
        ELSE s1

\* The tree after a scan of host a: the new weight is written to a's node,
\* then a host of positive weight that is not in the tree is inserted, then a
\* host of weight zero or with a recent failure that is in the tree is removed.
Reflect(a, e, t, idx, last) ==
    LET t0 == IF e.in_tree THEN update_weight(t, idx[a], e.weight) ELSE t
        s1 == IF e.weight > 0 /\ ~e.in_tree
              THEN [e   |-> [e EXCEPT !.in_tree = TRUE],
                    t   |-> insert(t0, a, e.weight),
                    idx |-> [x \in DOMAIN idx \cup {a} |->
                               IF x = a THEN InsertPos(t0, 1) ELSE idx[x]]]
              ELSE [e |-> e, t |-> t0, idx |-> idx]
    IN  IF (s1.e.weight = 0 \/ s1.e.recent_failure) /\ s1.e.in_tree
        THEN LET n == s1.idx[a]
                 l == LeafOf(s1.t, n, last)
             IN  [e   |-> [s1.e EXCEPT !.in_tree = FALSE],
                  t   |-> remove(s1.t, n, l),
                  idx |-> removeIndex(s1.idx, s1.t, n, l)]
        ELSE s1

\* A probe worker ends its scan and, under the lock, writes the result to
\* the host's entry and to the tree.  The result of a host that was forgotten
\* meanwhile has no entry to go to.
ScanDone(w) ==
    /\ workers[w].busy
    /\ workers' = [workers EXCEPT ![w] = [busy |-> FALSE, host |-> 0]]
    /\ \E ok \in BOOLEAN : \E settings \in ScanSettings : \E last \in BOOLEAN :
         LET a == workers[w].host
         IN  IF a \notin DOMAIN allHosts
             THEN UNCHANGED <<allHosts, treeVars>>
             ELSE LET e == ScannedEntry(allHosts[a], ok, settings)
                      r == Reflect(a, e, hostTree, activeHosts, last)
                  IN  /\ allHosts' = [allHosts EXCEPT ![a] = r.e]
                      /\ hostTree' = r.t
                      /\ activeHosts' = r.idx
                      /\ UNCHANGED treeOp
    /\ UNCHANGED <<schVars, extVars, chain, blockHeight, sched, scanPool, pending>>

HdbNext ==
    \/ ApplyBlock
    \/ RevertBlock
    \/ SchedWake
    \/ SchedStep
    \/ SchedSleep
    \/ \E w \in 1..NumWorkers : Dequeue(w)
    \/ \E w \in 1..NumWorkers : ScanDone(w)

SpecHostDB == HdbInit /\ [][HdbNext]_vars

\* The threads New starts run for ever: a probe worker that can receive or
\* end a scan does so, and the scheduler goes on with its sweeps.
HdbFairness ==
    /\ \A w \in 1..NumWorkers : WF_vars(Dequeue(w)) /\ WF_vars(ScanDone(w))
    /\ WF_vars(SchedWake) /\ WF_vars(SchedStep) /\ WF_vars(SchedSleep)

SpecHostDBFair == SpecHostDB /\ HdbFairness

\* the hosts of the tree, and how often a host is in the queue or in flight
TreeHosts == { hostTree[j].host : j \in DOMAIN hostTree }
InQueue(a) == Cardinality({ i \in 1..Len(scanPool.buf) : scanPool.buf[i] = a })
InFlight(a) == Cardinality({ w \in 1..NumWorkers : workers[w].busy /\ workers[w].host = a })

\* no scan of a known host has ended yet
NeverScanned(a) == ~allHosts[a].scanned /\ ~allHosts[a].recent_failure

C7_OneScanPerHost ==
    \A a \in Hosts : InFlight(a) <= 1 /\ InQueue(a) <= 1

(***************************************************************************)
(* C8.  When the consumer makes the entry of an address that was unseen,   *)
(* the host has been put in the scan queue by the end of that block's      *)
(* processing, also when the queue was full.                               *)
(***************************************************************************)
C8_AnnouncedIsEnqueued ==
    [][\A a \in Hosts :
          (a \notin DOMAIN allHosts /\ a \in DOMAIN allHosts')
              => InQueue(a)' = InQueue(a) + 1]_vars

(***************************************************************************)
(* C9.  After a block with a valid announcement of A is applied, a scan of *)
(* A is eventually attempted.  When a scan of a known host A ends with     *)
(* success, A is among the active hosts; when it ends with a failure, A is *)
(* a known host and not among the active hosts.                            *)
(***************************************************************************)
C9_AnnouncementThenScan ==
    /\ \A a \in Hosts :
          (a \in DOMAIN allHosts /\ NeverScanned(a)) ~> (InFlight(a) > 0)
    /\ [][\A a \in Hosts :
            (/\ a \in DOMAIN allHosts
             /\ \E w \in 1..NumWorkers :
                   workers[w].busy /\ workers[w].host = a /\ ~workers'[w].busy)
            => /\ a \in DOMAIN allHosts'
               /\ IF allHosts'[a].recent_failure
                  THEN a \notin DOMAIN activeHosts'
                  ELSE a \in DOMAIN activeHosts']_vars

(***************************************************************************)
(* C10.  When a block is reverted, a known host the block announced stays  *)
(* known exactly if a scan of it has succeeded.  No step at all makes a    *)
(* host unknown once a scan of it has succeeded.                           *)
(***************************************************************************)
C10_RevertForgets ==
    /\ [][\A a \in Hosts :
            (/\ Len(chain') < Len(chain)
             /\ a \in chain[Len(chain)]
             /\ a \in DOMAIN allHosts)
            => (a \in DOMAIN allHosts' <=> allHosts[a].scanned)]_vars
    /\ [][\A a \in Hosts :
            (a \in DOMAIN allHosts /\ allHosts[a].scanned)
            => (a \in DOMAIN allHosts' /\ allHosts'[a].scanned)]_vars

\* Every block is reverted; a host that was scanned with success is still
\* known without a reference, and a host that was announced and put in the
\* queue is known no more.
C10_Witness ==
    /\ chain = << >>
    /\ \E a \in DOMAIN allHosts : allHosts[a].scanned /\ allHosts[a].refs = 0
    /\ \E b \in Range(scanPool.buf) : b \notin DOMAIN allHosts

(***************************************************************************)
(* Part IV.  Reliability under sequences of scans                          *)
(*                                                                         *)
(* One host entry with any starting reliability is scanned again and       *)
(* again; relTest.log keeps the outcomes in order.                         *)
(***************************************************************************)
MaxK == 3

RelInit ==
    /\ SchIdle
    /\ TreeIdle
    /\ HdbIdle
    /\ persist = [pc |-> "none"]
    /\ keyCall = [op |-> "none"]
    /\ newCall = [pc |-> "none"]
    /\ renter = [pc |-> "none"]
    /\ \E r \in 0..MaxReliability :
          relTest = [pc |-> "scans", start |-> r,
                     entry |-> [NewEntry(0) EXCEPT !.reliability = r],
                     log |-> << >>]

\* one more scan of the host: a success with the settings read, or a failure
RelScanOk ==
    /\ Len(relTest.log) < 2 * MaxK
    /\ \E settings \in ScanSettings :
          relTest' = [relTest EXCEPT
                        !.entry = ScannedEntry(relTest.entry, TRUE, settings),
                        !.log = Append(@, TRUE)]
    /\ UNCHANGED <<schVars, treeVars, hdbVars, persist, keyCall, newCall, renter>>

RelScanFail ==
    /\ Len(relTest.log) < 2 * MaxK
    /\ relTest' = [relTest EXCEPT
                     !.entry = ScannedEntry(relTest.entry, FALSE, NoSettings),
                     !.log = Append(@, FALSE)]
    /\ UNCHANGED <<schVars, treeVars, hdbVars, persist, keyCall, newCall, renter>>

RelNext == RelScanOk \/ RelScanFail

SpecReliability == RelInit /\ [][RelNext]_vars

\* the log is k successes, and the log is k successes and then k failures
Successes(log, k) == Len(log) = k /\ \A i \in 1..k : log[i]
SuccessesThenFailures(log, k) ==
    /\ Len(log) = 2 * k
    /\ \A i \in 1..k : log[i] /\ ~log[k + i]

PersistVersion == 1

\* the states the coordinator may hold
PersistStates == SUBSET Announcers

\* the record a save serializes, and what a load makes of a file's content
NoFile == [kind |-> "absent", version |-> 0, hosts |-> {}]
TornFile == [kind |-> "torn", version |-> 0, hosts |-> {}]
Encode(st) == [kind |-> "complete", version |-> PersistVersion, hosts |-> st]
Decode(content) ==
    IF content.kind = "absent" THEN [err |-> "nil", state |-> {}]
    ELSE IF content.kind = "torn" \/ content.version # PersistVersion
    THEN [err |-> "CorruptPersistenceError", state |-> {}]
    ELSE [err |-> "nil", state |-> content.hosts]

\* A wrong WriteTmp, for the mutation check: the save writes state.json itself.
WriteInPlace(files, content) == [files EXCEPT !.main = content]

\* a write to state.json.tmp leaves it with content
WriteTmp(files, content) == [files EXCEPT !.tmp = content]

\* rename of state.json.tmp over state.json
RenameTmp(files) == [main |-> files.tmp, tmp |-> NoFile]

PerInit ==
    /\ SchIdle
    /\ TreeIdle
    /\ HdbIdle
    /\ relTest = [pc |-> "none"]
    /\ keyCall = [op |-> "none"]
    /\ newCall = [pc |-> "none"]
    /\ renter = [pc |-> "none"]
    /\ persist = [pc |-> "idle", mem |-> {},
                  files |-> [main |-> NoFile, tmp |-> NoFile],
                  prev |-> NoFile, crashedIn |-> "none",
                  res |-> [from |-> "none", err |-> "nil", state |-> {}, prev |-> NoFile]]

PerUnchanged == UNCHANGED <<schVars, treeVars, hdbVars, relTest, keyCall, newCall, renter>>

\* a structural change of the coordinator's state
PerChange ==
    /\ persist.pc = "idle"
    /\ \E st \in PersistStates \ {persist.mem} :
          persist' = [persist EXCEPT !.mem = st]
    /\ PerUnchanged

\* save: the temporary file is opened and the write begins
PerSaveStart ==
    /\ persist.pc = "idle"
    /\ persist' = [persist EXCEPT !.pc = "writing",
                                  !.prev = persist.files.main,
                                  !.files = WriteTmp(@, TornFile)]
    /\ PerUnchanged

\* save: the write of the temporary file ends
PerSaveWrite ==
    /\ persist.pc = "writing"
    /\ persist' = [persist EXCEPT !.pc = "written",
                                  !.files = WriteTmp(@, Encode(persist.mem))]
    /\ PerUnchanged

\* save: the temporary file is renamed over state.json
PerSaveRename ==
    /\ persist.pc = "written"
    /\ persist' = [persist EXCEPT !.pc = "idle", !.files = RenameTmp(@)]
    /\ PerUnchanged

\* the process dies; the files stay as they are
PerCrash ==
    /\ persist.pc \in {"idle", "writing", "written"}
    /\ persist' = [persist EXCEPT !.pc = "crashed", !.crashedIn = persist.pc,
                                  !.mem = {}]
    /\ PerUnchanged

\* the process starts again and loads state.json
PerLoad ==
    /\ persist.pc = "crashed"
    /\ LET r == Decode(persist.files.main)
       IN  persist' = [persist EXCEPT
                         !.pc = "idle",
                         !.mem = r.state,
                         !.res = [from |-> persist.crashedIn, err |-> r.err,
                                  state |-> r.state, prev |-> persist.prev]]
    /\ PerUnchanged

PerNext ==
    \/ PerChange
    \/ PerSaveStart
    \/ PerSaveWrite
    \/ PerSaveRename
    \/ PerCrash
    \/ PerLoad

SpecPersist == PerInit /\ [][PerNext]_vars

\* a save is under way, or the process died during one
InSave ==
    \/ persist.pc \in {"writing", "written"}
    \/ persist.pc = "crashed" /\ persist.crashedIn \in {"writing", "written"}

(***************************************************************************)
(* C12.  While a save is under way, and after a crash at any point of it,  *)
(* state.json holds the complete state it held when the save began; a load *)
(* after such a crash returns that state without an error.                 *)
(***************************************************************************)
C12_CrashKeepsPrevious ==
    /\ InSave => /\ persist.files.main = persist.prev
                 /\ persist.files.main # TornFile
    /\ persist.res.from \in {"writing", "written"} =>
          /\ persist.res.err = "nil"
          /\ persist.res.state = Decode(persist.res.prev).state
          /\ persist.res.prev # TornFile

\* The process died between the write of state.json.tmp and the rename, and
\* the load returned the hosts saved before, which differ from those in the
\* temporary file.
C12_Witness ==
    /\ persist.res.from = "written"
    /\ persist.res.prev # NoFile
    /\ persist.res.state # {}
    /\ persist.files.tmp.kind = "complete"
    /\ persist.files.tmp # persist.files.main
    /\ persist.files.main = persist.res.prev

(***************************************************************************)
(* Part VI.  crypto: the encodings of keys                                 *)
(*                                                                         *)
(* keyCall holds one call: the function, its input and what it returned.   *)
(***************************************************************************)
ECHeaderCompressedEven == 2
ECHeaderCompressedOdd == 3
ECHeaderSerializedSecret == 8

\* the exponents of UncompressECPublic: 3, and (P + 1) / 4 for the square root
bigThree == 3
sqRootExp == (s256.P + 1) \div 4

\* big.Int.Exp(b, e, m)
RECURSIVE ModExp(_, _, _)
ModExp(b, e, m) ==
    IF e = 0 THEN 1 % m
    ELSE ((b % m) * ModExp(b, e - 1, m)) % m

\* the *ECPublic and *ECSecret a failed call returns
NilPublic == [nil |-> TRUE, X |-> 0, Y |-> 0]
NilSecret == [nil |-> TRUE, X |-> 0, Y |-> 0, R |-> 0]

\* A wrong DeserializeECPublic, for the mutation check: the header is not
\* looked at.
DeserializeECPublicAnyHeader(data) ==
    IF Len(data) # 1 + 2 * ECCoordinateSize
    THEN [pub |-> NilPublic, err |-> "ErrInvalidSerializedPublic"]
    ELSE LET xBytes == SubSeq(data, 2, 1 + ECCoordinateSize)
             yBytes == SubSeq(data, 2 + ECCoordinateSize, Len(data))
         IN  [pub |-> [nil |-> FALSE, X |-> SetBytes(xBytes), Y |-> SetBytes(yBytes)],
              err |-> "nil"]

\* DeserializeECPublic
DeserializeECPublic(data) ==
    IF Len(data) # 1 + 2 * ECCoordinateSize
    THEN [pub |-> NilPublic, err |-> "ErrInvalidSerializedPublic"]
    ELSE IF data[1] # ECHeaderUncompressed
    THEN [pub |-> NilPublic, err |-> "ErrInvalidSerializedPublic"]
    ELSE LET xBytes == SubSeq(data, 2, 1 + ECCoordinateSize)
             yBytes == SubSeq(data, 2 + ECCoordinateSize, Len(data))
         IN  [pub |-> [nil |-> FALSE, X |-> SetBytes(xBytes), Y |-> SetBytes(yBytes)],
              err |-> "nil"]

\* ECSecret.Serialize: 0x08 || pad(R)
SerializeSecret(sec) ==
    LET data == <<ECHeaderSerializedSecret>>
        padr == pad(BigBytes(sec.R), ECCoordinateSize)
    IN  data \o padr

\* A wrong DeserializeECSecret, for the mutation check: the slice of the
\* secret ends one byte early.
DeserializeECSecretShort(data) ==
    IF Len(data) # 1 + ECCoordinateSize
    THEN [sec |-> NilSecret, err |-> "ErrInvalidSerializedSecret"]
    ELSE IF data[1] # ECHeaderSerializedSecret
    THEN [sec |-> NilSecret, err |-> "ErrInvalidSerializedSecret"]
    ELSE LET rBytes == SubSeq(data, 2, Len(data) - 1)
             pubKey == ComputeECPublic(rBytes)
         IN  [sec |-> [nil |-> FALSE, X |-> pubKey.X, Y |-> pubKey.Y,
                       R |-> SetBytes(rBytes)],
              err |-> "nil"]

\* DeserializeECSecret
DeserializeECSecret(data) ==
    IF Len(data) # 1 + ECCoordinateSize
    THEN [sec |-> NilSecret, err |-> "ErrInvalidSerializedSecret"]
    ELSE IF data[1] # ECHeaderSerializedSecret
    THEN [sec |-> NilSecret, err |-> "ErrInvalidSerializedSecret"]
    ELSE LET rBytes == SubSeq(data, 2, Len(data))
             pubKey == ComputeECPublic(rBytes)
         IN  [sec |-> [nil |-> FALSE, X |-> pubKey.X, Y |-> pubKey.Y,
                       R |-> SetBytes(rBytes)],
              err |-> "nil"]

\* bigIntParity: the last byte of i.Bytes() modulo 2.  The bytes of zero are
\* the empty slice, and indexing it panics.
bigIntParity(i) ==
    LET iBytes == BigBytes(i)
    IN  IF Len(iBytes) = 0
        THEN [panic |-> TRUE, parity |-> 0]
        ELSE [panic |-> FALSE, parity |-> iBytes[Len(iBytes)] % 2]

\* ECPublic.Compress: the header of Y's parity, then pad(X)
Compress(pub) ==
    LET parity == bigIntParity(pub.Y)
        header == IF parity.parity = 0 THEN ECHeaderCompressedEven
                  ELSE ECHeaderCompressedOdd
    IN  IF parity.panic THEN [panic |-> TRUE, data |-> << >>]
        ELSE [panic |-> FALSE,
              data |-> <<header>> \o pad(BigBytes(pub.X), ECCoordinateSize)]

\* A wrong UncompressECPublic, for the mutation check: the square root is
\* returned whatever the header says.
UncompressECPublicRoot(data) ==
    IF Len(data) # 1 + ECCoordinateSize
    THEN [pub |-> NilPublic, err |-> "ErrInvalidCompressedPublic", panic |-> FALSE]
    ELSE IF data[1] # ECHeaderCompressedEven /\ data[1] # ECHeaderCompressedOdd
    THEN [pub |-> NilPublic, err |-> "ErrInvalidCompressedPublic", panic |-> FALSE]
    ELSE LET x  == SetBytes(SubSeq(data, 2, Len(data)))
             y0 == (ModExp(x, bigThree, s256.P) + s256.B) % s256.P
             y1 == ModExp(y0, sqRootExp, s256.P)
         IN  [pub |-> [nil |-> FALSE, X |-> x, Y |-> y1], err |-> "nil",
              panic |-> FALSE]

\* UncompressECPublic
UncompressECPublic(data) ==
    IF Len(data) # 1 + ECCoordinateSize
    THEN [pub |-> NilPublic, err |-> "ErrInvalidCompressedPublic", panic |-> FALSE]
    ELSE IF data[1] # ECHeaderCompressedEven /\ data[1] # ECHeaderCompressedOdd
    THEN [pub |-> NilPublic, err |-> "ErrInvalidCompressedPublic", panic |-> FALSE]
    ELSE LET header       == data[1]
             xBytes       == SubSeq(data, 2, Len(data))
             x            == SetBytes(xBytes)
             y0           == (ModExp(x, bigThree, s256.P) + s256.B) % s256.P
             y1           == ModExp(y0, sqRootExp, s256.P)
             yParity      == bigIntParity(y1)
             headerParity == header % 2
             yTemp        == IF yParity.parity # headerParity
                             THEN (s256.P - y1) % s256.P
                             ELSE y1
         IN  IF yParity.panic
             THEN [pub |-> NilPublic, err |-> "nil", panic |-> TRUE]
             ELSE [pub |-> [nil |-> FALSE, X |-> x, Y |-> yTemp], err |-> "nil",
                   panic |-> FALSE]

\* Coordinates and secrets take up to MaxCoordBytes bytes in their minimal
\* encoding; encoded inputs carry up to MaxFill in their last bytes.
MaxCoordBytes == 2
MaxFill == 3

RECURSIVE Pow256(_)
Pow256(n) == IF n = 0 THEN 1 ELSE 256 * Pow256(n - 1)

\* zero, one, and the lowest and highest value of every length
CoordValues ==
    {0, 1} \cup { Pow256(n) - 1 : n \in 1..MaxCoordBytes }
           \cup { Pow256(n) : n \in 1..(MaxCoordBytes - 1) }

\* the points of the curve, and any pair of coordinates
CurvePoints ==
    { MulPoint([X |-> s256.Gx, Y |-> s256.Gy], k) : k \in 1..(s256.N - 1) }
PublicInputs ==
    CurvePoints \cup { [X |-> x, Y |-> y] : x \in CoordValues, y \in CoordValues }

\* secret keys with their public point
SecretInputs == { SecretOf(r) : r \in Scalars \cup CoordValues }

\* Encoded inputs: every length around the two sizes, every header, and
\* bytes after the header that end in a small number.
EncLengths ==
    {0, 1, ECCoordinateSize, 1 + ECCoordinateSize, 2 + ECCoordinateSize,
     2 * ECCoordinateSize, 1 + 2 * ECCoordinateSize, 2 + 2 * ECCoordinateSize}
EncHeaders ==
    {0, ECHeaderCompressedEven, ECHeaderCompressedOdd, ECHeaderUncompressed,
     ECHeaderSerializedSecret}
EncInputs ==
    {<< >>} \cup
    { <<h>> \o pad(BigBytes(v), n - 1) :
         h \in EncHeaders, v \in 0..MaxFill, n \in EncLengths \ {0} }

\* the inputs of pad: slices of every length around the size, and the sizes
PadSizes == {0, 1, 2, ECCoordinateSize}
PadInputs ==
    { [i \in 1..n |-> (a * i) % 256] :
         a \in {0, 1, 255},
         n \in {0, 1, 2, 3, ECCoordinateSize - 1, ECCoordinateSize,
                ECCoordinateSize + 1, ECCoordinateSize + 2} }

\* compressed encodings of every X up to MaxCompressedX, which is beyond the
\* field's prime, under both headers; and the integers bigIntParity is tried on
MaxCompressedX == 45
CompressedInputs ==
    { <<h>> \o pad(BigBytes(x), ECCoordinateSize) :
         h \in {ECHeaderCompressedEven, ECHeaderCompressedOdd},
         x \in 0..MaxCompressedX }
ParityInputs == (0..MaxCompressedX) \cup CoordValues

KeyInit ==
    /\ SchIdle
    /\ TreeIdle
    /\ HdbIdle
    /\ ExtIdle

KeyUnchanged == UNCHANGED <<schVars, treeVars, hdbVars, relTest, persist, newCall, renter>>

\* pub.Serialize() and DeserializeECPublic of the bytes, as TestSerializationPublic
KeySerializePublic ==
    /\ \E pub \in PublicInputs :
          keyCall' = [op |-> "Serialize", in |-> pub, data |-> Serialize(pub),
                      back |-> DeserializeECPublic(Serialize(pub))]
    /\ KeyUnchanged

\* sec.Serialize() and DeserializeECSecret of the bytes, as TestSerializationSecret
KeySerializeSecret ==
    /\ \E sec \in SecretInputs :
          keyCall' = [op |-> "SerializeSecret", in |-> sec,
                      data |-> SerializeSecret(sec),
                      back |-> DeserializeECSecret(SerializeSecret(sec))]
    /\ KeyUnchanged

\* pub.Compress() and UncompressECPublic of the bytes, as TestCompressionPublic
KeyCompress ==
    /\ \E pub \in CurvePoints :
          keyCall' = [op |-> "Compress", in |-> pub, data |-> Compress(pub),
                      back |-> UncompressECPublic(Compress(pub).data)]
    /\ KeyUnchanged

KeyDeserializePublic ==
    /\ \E data \in EncInputs :
          keyCall' = [op |-> "DeserializeECPublic", in |-> data,
                      out |-> DeserializeECPublic(data)]
    /\ KeyUnchanged

KeyDeserializeSecret ==
    /\ \E data \in EncInputs :
          keyCall' = [op |-> "DeserializeECSecret", in |-> data,
                      out |-> DeserializeECSecret(data)]
    /\ KeyUnchanged

KeyUncompress ==
    /\ \E data \in EncInputs \cup CompressedInputs :
          keyCall' = [op |-> "UncompressECPublic", in |-> data,
                      out |-> UncompressECPublic(data)]
    /\ KeyUnchanged

\* bigIntParity of an integer
KeyParity ==
    /\ \E i \in ParityInputs :
          keyCall' = [op |-> "bigIntParity", in |-> i, out |-> bigIntParity(i)]
    /\ KeyUnchanged

KeyPad ==
    /\ \E bytes \in PadInputs : \E size \in PadSizes :
          keyCall' = [op |-> "pad", in |-> bytes, size |-> size,
                      out |-> pad(bytes, size)]
    /\ KeyUnchanged

KeyNext ==
    \/ KeySerializePublic
    \/ KeySerializeSecret
    \/ KeyCompress
    \/ KeyDeserializePublic
    \/ KeyDeserializeSecret
    \/ KeyUncompress
    \/ KeyParity
    \/ KeyPad

SpecKeys == KeyInit /\ [][KeyNext]_vars

(***************************************************************************)
(* C13.  For every ECPublic P whose coordinates fit in 32 bytes,           *)
(* P.Serialize() is 65 bytes: 0x04, then X and then Y, each as 32 bytes    *)
(* big-endian; DeserializeECPublic of these bytes returns no error and a   *)
(* point with the same X and Y.                                            *)
(***************************************************************************)
C13_SerializePublicRoundTrip ==
    keyCall.op = "Serialize" =>
        /\ Len(keyCall.data) = 65
        /\ keyCall.data[1] = 4
        /\ SetBytes(SubSeq(keyCall.data, 2, 33)) = keyCall.in.X
        /\ SetBytes(SubSeq(keyCall.data, 34, 65)) = keyCall.in.Y
        /\ keyCall.back.err = "nil"
        /\ ~keyCall.back.pub.nil
        /\ keyCall.back.pub.X = keyCall.in.X
        /\ keyCall.back.pub.Y = keyCall.in.Y

\* A point with a two-byte X and a zero Y went through Serialize and back.
C13_Witness ==
    /\ keyCall.op = "Serialize"
    /\ keyCall.in.X = 256
    /\ keyCall.in.Y = 0
    /\ keyCall.data[32] = 1
    /\ keyCall.data[33] = 0
    /\ keyCall.back.pub.X = 256

(***************************************************************************)
(* C14.  For every point P of the curve, P.Compress() is 33 bytes: the     *)
(* header 0x02 when Y is even and 0x03 when Y is odd, then X as 32 bytes;  *)
(* UncompressECPublic of these bytes returns no error and the original X   *)
(* and Y.                                                                  *)
(***************************************************************************)
C14_CompressRoundTrip ==
    keyCall.op = "Compress" =>
        /\ ~keyCall.data.panic
        /\ Len(keyCall.data.data) = 33
        /\ keyCall.data.data[1] = (IF keyCall.in.Y % 2 = 0 THEN 2 ELSE 3)
        /\ SetBytes(SubSeq(keyCall.data.data, 2, 33)) = keyCall.in.X
        /\ keyCall.back.err = "nil"
        /\ ~keyCall.back.panic
        /\ ~keyCall.back.pub.nil
        /\ keyCall.back.pub.X = keyCall.in.X
        /\ keyCall.back.pub.Y = keyCall.in.Y

\* A point of odd Y was compressed, and the square root UncompressECPublic
\* computed first was the other, even one.
C14_Witness ==
    /\ keyCall.op = "Compress"
    /\ keyCall.in.Y % 2 = 1
    /\ keyCall.data.data[1] = 3
    /\ ModExp((ModExp(keyCall.in.X, 3, s256.P) + s256.B) % s256.P,
              sqRootExp, s256.P) # keyCall.in.Y
    /\ keyCall.back.pub.Y = keyCall.in.Y

(***************************************************************************)
(* C15.  For every secret r that fits in 32 bytes, the ECSecret's          *)
(* Serialize() is 33 bytes: 0x08, then r as 32 bytes big-endian;           *)
(* DeserializeECSecret of these bytes returns no error, R = r and the      *)
(* public point r*G.                                                       *)
(***************************************************************************)
C15_SerializeSecretRoundTrip ==
    keyCall.op = "SerializeSecret" =>
        /\ Len(keyCall.data) = 33
        /\ keyCall.data[1] = 8
        /\ SetBytes(SubSeq(keyCall.data, 2, 33)) = keyCall.in.R
        /\ keyCall.back.err = "nil"
        /\ ~keyCall.back.sec.nil
        /\ keyCall.back.sec.R = keyCall.in.R
        /\ [X |-> keyCall.back.sec.X, Y |-> keyCall.back.sec.Y]
              = MulPoint([X |-> s256.Gx, Y |-> s256.Gy], keyCall.in.R)

\* A secret of two bytes, above the group order, went through Serialize and
\* back, and its point is on the curve.
C15_Witness ==
    /\ keyCall.op = "SerializeSecret"
    /\ keyCall.in.R = 256
    /\ keyCall.data[32] = 1
    /\ keyCall.back.sec.R = 256
    /\ [X |-> keyCall.back.sec.X, Y |-> keyCall.back.sec.Y] \in CurvePoints

(***************************************************************************)
(* C16.  DeserializeECPublic returns ErrInvalidSerializedPublic and a nil  *)
(* key exactly for the inputs whose length is not 65 or whose first byte   *)
(* is not 0x04; UncompressECPublic returns ErrInvalidCompressedPublic and  *)
(* a nil key exactly for the inputs whose length is not 33 or whose first  *)
(* byte is neither 0x02 nor 0x03; DeserializeECSecret returns              *)
(* ErrInvalidSerializedSecret and a nil key exactly for the inputs whose   *)
(* length is not 33 or whose first byte is not 0x08.  Every other input    *)
(* gives a key and no error.                                               *)
(***************************************************************************)
C16_InvalidEncodingRejected ==
    /\ keyCall.op = "DeserializeECPublic" =>
          IF Len(keyCall.in) # 65 \/ keyCall.in[1] # 4
          THEN keyCall.out.err = "ErrInvalidSerializedPublic" /\ keyCall.out.pub.nil
          ELSE keyCall.out.err = "nil" /\ ~keyCall.out.pub.nil
    /\ keyCall.op = "UncompressECPublic" =>
          IF Len(keyCall.in) # 33 \/ keyCall.in[1] \notin {2, 3}
          THEN keyCall.out.err = "ErrInvalidCompressedPublic" /\ keyCall.out.pub.nil
          ELSE /\ keyCall.out.err = "nil"
               /\ ~keyCall.out.panic
               /\ ~keyCall.out.pub.nil
    /\ keyCall.op = "DeserializeECSecret" =>
          IF Len(keyCall.in) # 33 \/ keyCall.in[1] # 8
          THEN keyCall.out.err = "ErrInvalidSerializedSecret" /\ keyCall.out.sec.nil
          ELSE keyCall.out.err = "nil" /\ ~keyCall.out.sec.nil

\* DeserializeECPublic was handed 65 bytes with the header of a secret and
\* returned the error and no key.
C16_Witness ==
    /\ keyCall.op = "DeserializeECPublic"
    /\ Len(keyCall.in) = 65
    /\ keyCall.in[1] = 8
    /\ keyCall.out.err = "ErrInvalidSerializedPublic"
    /\ keyCall.out.pub.nil

(***************************************************************************)
(* C17.  pad(b, size) returns exactly size bytes.  Of an input shorter     *)
(* than size (the empty one included) they are zero bytes followed by the  *)
(* input, so the scalar 1 becomes 31 zero bytes and 0x01; of an input of   *)
(* size bytes or more they are the last size bytes of the input.           *)
(***************************************************************************)
C17_PadExactSize ==
    keyCall.op = "pad" =>
        LET n    == Len(keyCall.in)
            size == keyCall.size
        IN  /\ Len(keyCall.out) = size
            /\ n < size =>
                  \A i \in 1..size :
                      keyCall.out[i] = IF i <= size - n THEN 0
                                       ELSE keyCall.in[i - (size - n)]
            /\ n >= size =>
                  \A i \in 1..size : keyCall.out[i] = keyCall.in[n - size + i]

\* The bytes of the scalar 1 were padded to 32 bytes.
C17_Witness ==
    /\ keyCall.op = "pad"
    /\ keyCall.in = <<1>>
    /\ keyCall.size = 32
    /\ keyCall.out = [i \in 1..32 |-> IF i = 32 THEN 1 ELSE 0]

\* UncompressECPublic of 33 bytes under a header of a compressed key: no
\* error, no panic, X as encoded and Y of the header's parity
C22_UncompressParity ==
    (/\ keyCall.op = "UncompressECPublic"
     /\ Len(keyCall.in) = 33
     /\ keyCall.in[1] \in {2, 3}) =>
        /\ keyCall.out.err = "nil"
        /\ ~keyCall.out.panic
        /\ ~keyCall.out.pub.nil
        /\ keyCall.out.pub.X = SetBytes(SubSeq(keyCall.in, 2, 33))
        /\ keyCall.in[1] = 2 => keyCall.out.pub.Y % 2 = 0
        /\ keyCall.in[1] = 3 => keyCall.out.pub.Y % 2 = 1

\* bigIntParity of a positive integer is the integer mod 2
C22_ParityOfPositive ==
    (keyCall.op = "bigIntParity" /\ keyCall.in > 0) =>
        ~keyCall.out.panic /\ keyCall.out.parity = keyCall.in % 2

(***************************************************************************)
(* C22.  For every input of 33 bytes whose header is 0x02 or 0x03,         *)
(* UncompressECPublic returns, without error and without panic, a point    *)
(* whose X is the integer the 32 bytes after the header encode and whose Y *)
(* is even under 0x02 and odd under 0x03; and bigIntParity returns its     *)
(* argument mod 2 for every non-negative integer, zero included.           *)
(***************************************************************************)
C22_UncompressAndParity ==
    /\ C22_UncompressParity
    /\ keyCall.op = "bigIntParity" =>
          ~keyCall.out.panic /\ keyCall.out.parity = keyCall.in % 2

\* bigIntParity was called on zero and panicked.
C22_ParityOfZeroPanics ==
    /\ keyCall.op = "bigIntParity"
    /\ keyCall.in = 0
    /\ keyCall.out.panic

(***************************************************************************)
(* Part VII.  hostdb.New                                                   *)
(*                                                                         *)
(* One call of New, a step of its body at a time.  newCall holds the       *)
(* arguments (which of the dependencies are nil), what the file system     *)
(* will answer to MkdirAll, newLogger and load, what the call has done so  *)
(* far and, at the end, what it returned.                                  *)
(***************************************************************************)

\* the probe workers New starts
scanningThreads == NumWorkers

\* the contracts a persisted state may hold
MaxContracts == 1
ContractIDs == 1..MaxContracts

\* what the persist directory may hold when New is called
StoredStates == [hosts : SUBSET Announcers, contracts : SUBSET ContractIDs]

\* the errors hdb.load() may return
LoadErrors == {"nil", "errNotExist", "errCorrupt", "errPermission"}

\* os.IsNotExist
IsNotExist(err) == err = "errNotExist"

\* A wrong order of the nil checks, for the mutation check.
nilCheckWalletFirst(cs, wallet, tpool) ==
    IF wallet = "nil" THEN "errNilWallet"
    ELSE IF cs = "nil" THEN "errNilCS"
    ELSE IF tpool = "nil" THEN "errNilTpool"
    ELSE "nil"

\* the nil checks New begins with
nilCheck(cs, wallet, tpool) ==
    IF cs = "nil" THEN "errNilCS"
    ELSE IF wallet = "nil" THEN "errNilWallet"
    ELSE IF tpool = "nil" THEN "errNilTpool"
    ELSE "nil"

\* A wrong test of load's error, for the mutation check: every error ends New.
loadFailedAny(err) == err # "nil"

\* err != nil && !os.IsNotExist(err)
loadFailed(err) == err # "nil" /\ ~IsNotExist(err)

\* the HostDB newHostDB returns, as far as New's callers can tell
EmptyHostDB == [nil |-> FALSE, allHosts |-> {}, activeHosts |-> {}, contracts |-> {}]
NilHostDB == [nil |-> TRUE, allHosts |-> {}, activeHosts |-> {}, contracts |-> {}]

\* hdb.load(): a state read from the file becomes the host and contract maps;
\* a failed load leaves the HostDB as it was
load(hdb, err, stored) ==
    IF err = "nil"
    THEN [hdb EXCEPT !.allHosts = stored.hosts, !.contracts = stored.contracts]
    ELSE hdb

Deps == {"nil", "set"}

NewInit ==
    /\ SchIdle
    /\ TreeIdle
    /\ HdbIdle
    /\ relTest = [pc |-> "none"]
    /\ persist = [pc |-> "none"]
    /\ keyCall = [op |-> "none"]
    /\ renter = [pc |-> "none"]
    /\ \E cs \in Deps, wallet \in Deps, tpool \in Deps,
          mkdirErr \in {"nil", "errMkdir"}, loggerErr \in {"nil", "errLogger"},
          loadErr \in LoadErrors, stored \in StoredStates :
          newCall = [pc |-> "check",
                     cs |-> cs, wallet |-> wallet, tpool |-> tpool,
                     mkdirErr |-> mkdirErr, loggerErr |-> loggerErr,
                     loadErr |-> loadErr, stored |-> stored,
                     dirCreated |-> FALSE, loadCalled |-> FALSE,
                     hdb |-> NilHostDB,
                     probes |-> 0, scanner |-> FALSE, subscribed |-> FALSE,
                     events |-> << >>,
                     ret |-> [hdb |-> NilHostDB, err |-> "nil"]]

NewUnchanged == UNCHANGED <<schVars, treeVars, hdbVars, relTest, persist, keyCall, renter>>

\* return nil, err
NewReturnErr(call, err) ==
    [call EXCEPT !.pc = "done", !.ret = [hdb |-> NilHostDB, err |-> err]]

\* the three nil checks
NewCheckNil ==
    /\ newCall.pc = "check"
    /\ LET err == nilCheck(newCall.cs, newCall.wallet, newCall.tpool)
       IN  newCall' = IF err # "nil" THEN NewReturnErr(newCall, err)
                      ELSE [newCall EXCEPT !.pc = "mkdir"]
    /\ NewUnchanged

\* os.MkdirAll(persistDir, 0700)
NewMkdirAll ==
    /\ newCall.pc = "mkdir"
    /\ newCall' = IF newCall.mkdirErr # "nil"
                  THEN NewReturnErr(newCall, newCall.mkdirErr)
                  ELSE [newCall EXCEPT !.pc = "logger", !.dirCreated = TRUE]
    /\ NewUnchanged

\* newLogger(persistDir)
NewLogger ==
    /\ newCall.pc = "logger"
    /\ newCall' = IF newCall.loggerErr # "nil"
                  THEN NewReturnErr(newCall, newCall.loggerErr)
                  ELSE [newCall EXCEPT !.pc = "newHostDB"]
    /\ NewUnchanged

\* hdb := newHostDB(...)
NewNewHostDB ==
    /\ newCall.pc = "newHostDB"
    /\ newCall' = [newCall EXCEPT !.pc = "load", !.hdb = EmptyHostDB]
    /\ NewUnchanged

\* err = hdb.load() and the test of err
NewLoad ==
    /\ newCall.pc = "load"
    /\ LET after == [newCall EXCEPT
                        !.loadCalled = TRUE,
                        !.hdb = load(newCall.hdb, newCall.loadErr, newCall.stored),
                        !.events = Append(newCall.events, "load")]
       IN  newCall' = IF loadFailed(newCall.loadErr)
                      THEN NewReturnErr(after, newCall.loadErr)
                      ELSE [after EXCEPT !.pc = "probes"]
    /\ NewUnchanged

\* one turn of the loop: go hdb.threadedProbeHosts()
NewStartProbe ==
    /\ newCall.pc = "probes"
    /\ newCall.probes < scanningThreads
    /\ newCall' = [newCall EXCEPT !.probes = @ + 1,
                                  !.events = Append(@, "probe")]
    /\ NewUnchanged

\* A wrong end of the loop, for the mutation check: the scheduler may be
\* started after any number of turns.
NewStartScanEarly ==
    /\ newCall.pc = "probes"
    /\ newCall' = [newCall EXCEPT !.pc = "subscribe", !.scanner = TRUE,
                                  !.events = Append(@, "scan")]
    /\ NewUnchanged

\* the loop is over: go hdb.threadedScan()
NewStartScan ==
    /\ newCall.pc = "probes"
    /\ ~(newCall.probes < scanningThreads)
    /\ newCall' = [newCall EXCEPT !.pc = "subscribe", !.scanner = TRUE,
                                  !.events = Append(@, "scan")]
    /\ NewUnchanged

\* cs.ConsensusSetSubscribe(hdb); return hdb, nil
NewSubscribe ==
    /\ newCall.pc = "subscribe"
    /\ newCall' = [newCall EXCEPT !.pc = "done", !.subscribed = TRUE,
                                  !.events = Append(@, "subscribe"),
                                  !.ret = [hdb |-> newCall.hdb, err |-> "nil"]]
    /\ NewUnchanged

NewNext ==
    \/ NewCheckNil
    \/ NewMkdirAll
    \/ NewLogger
    \/ NewNewHostDB
    \/ NewLoad
    \/ NewStartProbe
    \/ NewStartScan
    \/ NewSubscribe

SpecNew == NewInit /\ [][NewNext]_vars

\* New has not touched the world
NewNoEffect ==
    /\ ~newCall.dirCreated
    /\ ~newCall.loadCalled
    /\ newCall.probes = 0
    /\ ~newCall.scanner
    /\ ~newCall.subscribed

(***************************************************************************)
(* C18.  New returns errNilCS when the consensus set is nil, otherwise     *)
(* errNilWallet when the wallet is nil, otherwise errNilTpool when the     *)
(* transaction pool is nil.  In each case the HostDB returned is nil, no   *)
(* persist directory was created, no state was loaded, no probe worker and *)
(* no scan scheduler was started and the consensus set was not subscribed  *)
(* to.                                                                     *)
(***************************************************************************)
C18_NilDependencyRejected ==
    (newCall.cs = "nil" \/ newCall.wallet = "nil" \/ newCall.tpool = "nil") =>
        /\ NewNoEffect
        /\ newCall.pc \in {"check", "done"}
        /\ newCall.pc = "done" =>
              /\ newCall.ret.hdb.nil
              /\ newCall.ret.err = IF newCall.cs = "nil" THEN "errNilCS"
                                   ELSE IF newCall.wallet = "nil" THEN "errNilWallet"
                                   ELSE "errNilTpool"

\* New has returned errNilWallet to a caller whose wallet and transaction pool
\* were both nil.
C18_Witness ==
    /\ newCall.pc = "done"
    /\ newCall.cs = "set"
    /\ newCall.wallet = "nil"
    /\ newCall.tpool = "nil"
    /\ newCall.ret.err = "errNilWallet"
    /\ newCall.ret.hdb.nil

(***************************************************************************)
(* C19.  When load fails because the persisted file does not exist, New    *)
(* goes on as from an empty state and returns a HostDB whose host,         *)
(* active-host and contract maps are empty, and no error.  When load fails *)
(* in any other way, New returns that error and a nil HostDB, and has      *)
(* started no probe worker and no scan scheduler and has not subscribed to *)
(* the consensus set.                                                      *)
(***************************************************************************)
C19_LoadFailure ==
    (newCall.pc = "done" /\ newCall.loadCalled) =>
        /\ newCall.loadErr = "errNotExist" =>
              /\ newCall.ret.err = "nil"
              /\ ~newCall.ret.hdb.nil
              /\ newCall.ret.hdb.allHosts = {}
              /\ newCall.ret.hdb.activeHosts = {}
              /\ newCall.ret.hdb.contracts = {}
        /\ newCall.loadErr \notin {"nil", "errNotExist"} =>
              /\ newCall.ret.err = newCall.loadErr
              /\ newCall.ret.hdb.nil
              /\ newCall.probes = 0
              /\ ~newCall.scanner
              /\ ~newCall.subscribed

\* New has returned a HostDB although a state with hosts and contracts could
\* not be found where load looked for it.
C19_Witness ==
    /\ newCall.pc = "done"
    /\ newCall.loadCalled
    /\ newCall.loadErr = "errNotExist"
    /\ newCall.ret.err = "nil"
    /\ ~newCall.ret.hdb.nil
    /\ newCall.subscribed

\* New has returned the error of a load that found a corrupt file.
C19_WitnessCorrupt ==
    /\ newCall.pc = "done"
    /\ newCall.loadCalled
    /\ newCall.loadErr = "errCorrupt"
    /\ newCall.ret.err = "errCorrupt"
    /\ newCall.ret.hdb.nil

\* what a successful New does to the world, in the order of the code
NewEvents ==
    <<"load">> \o [i \in 1..scanningThreads |-> "probe"] \o <<"scan", "subscribe">>

\* s is the beginning of t
IsPrefix(s, t) == Len(s) <= Len(t) /\ s = SubSeq(t, 1, Len(s))

(***************************************************************************)
(* C21.  In every call of New that returns a HostDB, the persisted state   *)
(* was loaded before any probe worker and before the scan scheduler was    *)
(* started, exactly scanningThreads probe workers and one scan scheduler   *)
(* were started, and the consensus set was subscribed to after all of      *)
(* them; at no moment of any call is the HostDB subscribed while load has  *)
(* not been called or a thread is yet to be started.                       *)
(***************************************************************************)
C21_LoadThreadsSubscribe ==
    /\ IsPrefix(newCall.events, NewEvents)
    /\ (newCall.probes > 0 \/ newCall.scanner) => newCall.loadCalled
    /\ newCall.subscribed =>
          /\ newCall.loadCalled
          /\ newCall.probes = scanningThreads
          /\ newCall.scanner
    /\ (newCall.pc = "done" /\ newCall.ret.err = "nil") =>
          /\ ~newCall.ret.hdb.nil
          /\ newCall.events = NewEvents
          /\ newCall.probes = scanningThreads
          /\ newCall.scanner
          /\ newCall.subscribed

\* New has returned a HostDB holding the hosts and contracts it loaded.
C21_Witness ==
    /\ newCall.pc = "done"
    /\ newCall.ret.err = "nil"
    /\ newCall.loadErr = "nil"
    /\ newCall.ret.hdb.allHosts # {}
    /\ newCall.ret.hdb.contracts # {}
    /\ newCall.probes = scanningThreads
    /\ newCall.events = NewEvents

(***************************************************************************)
(* Part VIII.  The renter's file map                                       *)
(*                                                                         *)
(* r.files maps a nickname to a *file; a file carries its own name.  The   *)
(* files are objects 1..NumFiles, 0 stands for "no entry" in the map and   *)
(* for "no name" of an object that was never made.  RenameFile and         *)
(* DeleteFile run under r.mu, so each call is one step; what saving to and *)
(* removing from disk answer is an input of the call.                      *)
(***************************************************************************)
NumNames == 3
NumFiles == 2
FileNames == 1..NumNames
FileObjects == 1..NumFiles

\* what r.saveFile, r.save and os.RemoveAll may answer
DiskOutcomes == [saveFile : {"nil", "errSaveFile"},
                 save : {"nil", "errSave"},
                 remove : {"nil", "errRemove"}]

\* A wrong RenameFile, for the mutation check: newName is not looked up.
RenameFileNoOverload(r, currentName, newName, io) ==
    LET file == r.files[currentName]
    IN  IF file = 0
        THEN [files |-> r.files, names |-> r.names, err |-> "ErrUnknownPath"]
        ELSE LET names1 == [r.names EXCEPT ![file] = newName]
                 files1 == [[r.files EXCEPT ![currentName] = 0] EXCEPT ![newName] = file]
             IN  IF io.saveFile # "nil"
                 THEN [files |-> r.files, names |-> names1, err |-> io.saveFile]
                 ELSE IF io.save # "nil"
                 THEN [files |-> files1, names |-> names1, err |-> io.save]
                 ELSE [files |-> files1, names |-> names1, err |-> io.remove]

\* RenameFile(currentName, newName): the map, the names and the error after
RenameFile(r, currentName, newName, io) ==
    LET file == r.files[currentName]
    IN  IF file = 0
        THEN [files |-> r.files, names |-> r.names, err |-> "ErrUnknownPath"]
        ELSE IF r.files[newName] # 0
        THEN [files |-> r.files, names |-> r.names, err |-> "ErrPathOverload"]
        ELSE LET names1 == [r.names EXCEPT ![file] = newName]
                 files1 == [[r.files EXCEPT ![currentName] = 0] EXCEPT ![newName] = file]
             IN  IF io.saveFile # "nil"
                 THEN [files |-> r.files, names |-> names1, err |-> io.saveFile]
                 ELSE IF io.save # "nil"
                 THEN [files |-> files1, names |-> names1, err |-> io.save]
                 ELSE [files |-> files1, names |-> names1, err |-> io.remove]

\* DeleteFile(nickname): the map, the names and the error after
DeleteFile(r, nickname, io) ==
    LET f == r.files[nickname]
    IN  IF f = 0
        THEN [files |-> r.files, names |-> r.names, err |-> "ErrUnknownPath"]
        ELSE LET files1 == [r.files EXCEPT ![nickname] = 0]
             IN  IF io.remove # "nil"
                 THEN [files |-> files1, names |-> r.names, err |-> io.remove]
                 ELSE [files |-> files1, names |-> r.names, err |-> io.save]

\* the file maps a renter starts with: every file under its own name
StartMaps ==
    {m \in [FileNames -> {0} \cup FileObjects] :
        \A a, b \in FileNames : (a # b /\ m[a] # 0) => m[a] # m[b]}

\* the name newFile gave to each file of a start map
StartNames(m) ==
    [f \in FileObjects |->
        IF \E n \in FileNames : m[n] = f
        THEN CHOOSE n \in FileNames : m[n] = f
        ELSE 0]

NoCall == [op |-> "none", currentName |-> 0, newName |-> 0, err |-> "nil",
           before |-> [files |-> [n \in FileNames |-> 0],
                       names |-> [f \in FileObjects |-> 0]]]

RenInit ==
    /\ SchIdle
    /\ TreeIdle
    /\ HdbIdle
    /\ relTest = [pc |-> "none"]
    /\ persist = [pc |-> "none"]
    /\ keyCall = [op |-> "none"]
    /\ newCall = [pc |-> "none"]
    /\ \E m \in StartMaps :
          renter = [pc |-> "ready", files |-> m, names |-> StartNames(m),
                    last |-> NoCall]

RenUnchanged == UNCHANGED <<schVars, treeVars, hdbVars, relTest, persist, keyCall, newCall>>

\* a call of r.RenameFile
RenRenameFile ==
    /\ renter.pc = "ready"
    /\ \E currentName \in FileNames, newName \in FileNames, io \in DiskOutcomes :
          LET res == RenameFile(renter, currentName, newName, io)
          IN  renter' = [renter EXCEPT
                            !.files = res.files,
                            !.names = res.names,
                            !.last = [op |-> "RenameFile",
                                      currentName |-> currentName,
                                      newName |-> newName,
                                      err |-> res.err,
                                      before |-> [files |-> renter.files,
                                                  names |-> renter.names]]]
    /\ RenUnchanged

\* a call of r.DeleteFile
RenDeleteFile ==
    /\ renter.pc = "ready"
    /\ \E nickname \in FileNames, io \in DiskOutcomes :
          LET res == DeleteFile(renter, nickname, io)
          IN  renter' = [renter EXCEPT
                            !.files = res.files,
                            !.names = res.names,
                            !.last = [op |-> "DeleteFile",
                                      currentName |-> nickname,
                                      newName |-> 0,
                                      err |-> res.err,
                                      before |-> [files |-> renter.files,
                                                  names |-> renter.names]]]
    /\ RenUnchanged

RenNext ==
    \/ RenRenameFile
    \/ RenDeleteFile

SpecRenter == RenInit /\ [][RenNext]_vars

\* the last call left the map and every file's name as they were
RenLastChangedNothing ==
    /\ renter.files = renter.last.before.files
    /\ renter.names = renter.last.before.names

C20_WitnessSameName ==
    /\ renter.last.op = "RenameFile"
    /\ renter.last.currentName = renter.last.newName
    /\ renter.last.before.files[renter.last.currentName] # 0
    /\ renter.last.err = "ErrPathOverload"

\* every entry of r.files is stored under its file's name
RenKeyIsName ==
    \A n \in FileNames :
        renter.files[n] # 0 => renter.names[renter.files[n]] = n

(***************************************************************************)
(* C23.  After any sequence of RenameFile and DeleteFile calls, those that *)
(* return an error of saving to or removing from disk included, every      *)
(* entry of the renter's file map is stored under the key that is its      *)
(* file's name, and a call that returned an error has changed neither the  *)
(* file map nor the name of any file.                                      *)
(***************************************************************************)
C23_KeyIsNameAfterErrors ==
    /\ RenKeyIsName
    /\ (renter.last.op # "none" /\ renter.last.err # "nil") => RenLastChangedNothing

\* RenameFile could not save the file: the file carries the new name and is
\* still stored under the old one.
C23_RenamedButNotMoved ==
    /\ renter.last.op = "RenameFile"
    /\ renter.last.err = "errSaveFile"
    /\ renter.files[renter.last.currentName] # 0
    /\ renter.names[renter.files[renter.last.currentName]] = renter.last.newName
    /\ renter.last.newName # renter.last.currentName

\* DeleteFile could not remove the file from disk: the entry is gone.
C23_DeletedDespiteError ==
    /\ renter.last.op = "DeleteFile"
    /\ renter.last.err = "errRemove"
    /\ renter.last.before.files[renter.last.currentName] # 0
    /\ renter.files[renter.last.currentName] = 0

=============================================================================
